---- MODULE Spec2Model ----
(***************************************************************************)
(* Model of the batch subtitle pipeline of main.py: main, do_srt,          *)
(* extract_audio, convert_to_srt and do_summary.                           *)
(*                                                                         *)
(* A path is the sequence of its dot-separated components, so that         *)
(* os.path.splitext and the suffix concatenations of do_srt are computed   *)
(* as the code computes them: "a.test.mp4" is <<"a", "test", "mp4">>.      *)
(*                                                                         *)
(* Environment: extract_audio, WhisperModel(), model.transcribe, the lazy  *)
(* segment generator, open/write of the temporary subtitle, os.rename and  *)
(* os.unlink may each fail; os.path.exists does not.  An os.unlink that    *)
(* raises leaves its file on disk.  The process may be killed at any point *)
(* of a run (Kill); the next run then starts from the files left on disk.  *)
(***************************************************************************)
EXTENDS Integers, Sequences, FiniteSets, TLC

\* ---------------------------------------------------------------- bounds
MaxRuns == 2
MaxSeg == 1
MaxUnlinkFaults == 1

\* ----------------------------------------------------------------- paths
\* The *.mp4 files under BASE_DIR.
Videos == { <<"a", "mp4">>, <<"a", "test", "mp4">> }

\* os.path.splitext(video_path)[0]
splitext0(p) == SubSeq(p, 1, Len(p) - 1)

srt_path(v) == splitext0(v) \o <<"srt">>

temp_wav(v) == splitext0(v) \o <<"temp", "wav">>

temp_srt(v) == splitext0(v) \o <<"test", "srt">>

AllPaths == UNION { {srt_path(v), temp_wav(v), temp_srt(v)} : v \in Videos }

\* A file's content: the video it was made from and the number of segments
\* of that video's transcription it does not render completely (0 for a
\* waveform).  Absent marks a path that does not exist.
Absent == [of |-> <<>>, missing |-> 0]

Exists(d, p) == d[p] # Absent

\* The file open(path, "w") leaves for video v, k segments to be written.
Opened(v, k) == [of |-> v, missing |-> k]

\* The final subtitles on disk d.
Finals(d) == [v \in Videos |-> d[srt_path(v)]]

\* The orders in which glob.glob may list the directory.
Orders == { s \in [1..Cardinality(Videos) -> Videos] :
              \A i, j \in DOMAIN s : i # j => s[i] # s[j] }

VARIABLES
  run,          \* number of the current invocation of main
  prevExited,   \* the previous invocation of main returned (was not killed)
  mainpc,       \* "running" or "exited" (main returned)
  mp4_files,    \* the snapshot glob.glob returned
  cur,          \* position of the loop of main in mp4_files (0 before it)
  pc,           \* position inside do_srt, "idle" between two jobs
  disk,         \* path -> content or Absent
  segments,     \* segments the generator returned by transcribe yields
  jobState,     \* video -> state of its TranscriptionJob in this run
  failPoint,    \* where the current job failed, "none" if it did not
  errorLogged,  \* an error was logged for the current job
  exc,          \* an exception is propagating out of do_srt
  extractCalls, \* calls of ffmpeg in this run
  transcribeCalls, \* calls of model.transcribe in this run
  entryDisk,    \* the disk when the current job started
  entryCalls,   \* the calls made in this run when the current job started
  runStartSrt,  \* the final subtitles when this run started
  log,          \* the records main logged in this run, in order
  unlinkFaults, \* calls of os.unlink that raised so far
  \* do_summary
  spc,          \* position inside do_summary
  srt_exists,   \* the final subtitle of the video exists
  srt_text,     \* its text
  summary_exists, \* the summary file of the video exists
  summary_text, \* its text, as the sequence of pieces written
  content,      \* the local of do_summary: the text read
  blocks,       \* the local of do_summary: the blocks, each a joined text
  summaries,    \* the local of do_summary: the summaries obtained so far
  summaryCalls, \* the blocks get_summary was called with, in call order
  summaryError, \* do_summary logged an error
  summaryReturns, \* what get_summary returned, in call order
  sfail,        \* the call of do_summary that raised, "none" if none did
  \* the two subtitle writers
  t_ms,         \* a time, in milliseconds
  segs_in,      \* a sequence of timed segments
  fmt_main,     \* what format_time of main.py returned for the time
  fmt_single,   \* what format_time of video2srt.py returned for it
  doc_main,     \* what convert_to_srt of main.py wrote for the segments
  doc_single,   \* what convert_to_srt of video2srt.py wrote for them
  applied,      \* the functions applied so far
  \* main of video2srt.py
  vpc,          \* position inside main of video2srt.py
  ext,          \* the extension of input_file
  temp_audio,   \* <base>_temp_audio.wav exists
  out_srt,      \* the text of <base>.srt, NoFile if it does not exist
  vsegs,        \* the segments model.transcribe returned
  vraised       \* an exception left main: the program ended on it

bvars == << run, prevExited, mainpc, mp4_files, cur, pc, disk, segments,
            jobState, failPoint, errorLogged, exc, extractCalls,
            transcribeCalls, entryDisk, entryCalls, runStartSrt, log,
            unlinkFaults >>

svars == << spc, srt_exists, srt_text, summary_exists, summary_text, content,
            blocks, summaries, summaryCalls, summaryError, summaryReturns,
            sfail >>

fvars == << t_ms, segs_in, fmt_main, fmt_single, doc_main, doc_single,
            applied >>

gvars == << vpc, ext, temp_audio, out_srt, vsegs, vraised >>

vars == << bvars, svars, fvars, gvars >>

\* What no step of the batch program touches, and what no step of
\* do_summary touches.
nonBatch == << svars, fvars, gvars >>

nonSummary == << bvars, fvars, gvars >>

nonWriters == << bvars, svars, gvars >>

nonSingle == << bvars, svars, fvars >>

\* The video the loop of main is at.
file == mp4_files[cur]

\* do_summary is not running: main does not call it (the call is commented
\* out).
SummaryOff ==
  /\ spc = "off"
  /\ srt_exists = FALSE
  /\ srt_text = << >>
  /\ summary_exists = FALSE
  /\ summary_text = << >>
  /\ content = << >>
  /\ blocks = << >>
  /\ summaries = << >>
  /\ summaryCalls = << >>
  /\ summaryError = FALSE
  /\ summaryReturns = << >>
  /\ sfail = "none"

\* No writer is being applied.
WritersOff ==
  /\ t_ms = 0
  /\ segs_in = << >>
  /\ fmt_main = << >>
  /\ fmt_single = << >>
  /\ doc_main = << >>
  /\ doc_single = << >>
  /\ applied = { }

\* What stands for the text of a file that does not exist.
NoFile == << "no file" >>

\* video2srt.py is not running.
SingleOff ==
  /\ vpc = "off"
  /\ ext = ""
  /\ temp_audio = FALSE
  /\ out_srt = NoFile
  /\ vsegs = << >>
  /\ vraised = FALSE

Init ==
  /\ SummaryOff
  /\ WritersOff
  /\ SingleOff
  /\ run = 1
  /\ prevExited = FALSE
  /\ mainpc = "running"
  /\ mp4_files \in Orders
  /\ cur = 0
  /\ pc = "idle"
  /\ disk = [p \in AllPaths |-> Absent]
  /\ segments = 0
  /\ jobState = [v \in Videos |-> "Pending"]
  /\ failPoint = "none"
  /\ errorLogged = FALSE
  /\ exc = FALSE
  /\ extractCalls = 0
  /\ transcribeCalls = 0
  /\ entryDisk = disk
  /\ entryCalls = 0
  /\ runStartSrt = Finals(disk)
  /\ log = << >>
  /\ unlinkFaults = 0

\* The record logging.info writes before and after a job: its kind and
\* (index, total, path).
Progress(kind, i) ==
  [kind |-> kind, index |-> i, total |-> Len(mp4_files), path |-> mp4_files[i]]

\* The record logging.error writes for an exception that reached the loop.
ErrorRecord(i) == [kind |-> "Error", path |-> mp4_files[i]]

\* ------------------------------------------------------------------ main
\* for (i, file) in enumerate(mp4_files): log "Processing", call do_srt.
MainNextFile ==
  /\ mainpc = "running" /\ pc = "idle" /\ cur < Len(mp4_files)
  /\ cur' = cur + 1
  /\ pc' = "guard"
  /\ entryDisk' = disk
  /\ entryCalls' = extractCalls + transcribeCalls
  /\ log' = Append(log, Progress("Processing", cur + 1))
  /\ UNCHANGED << run, prevExited, mainpc, mp4_files, disk, segments,
                  jobState, failPoint, errorLogged, exc, extractCalls,
                  transcribeCalls, runStartSrt, unlinkFaults,
                  nonBatch >>

\* A loop that stops at the first job that failed.
MainFinishedAborts ==
  /\ mainpc = "running" /\ pc = "returned"
  /\ pc' = "idle"
  /\ mainpc' = IF jobState[file] = "Failed" THEN "aborted" ELSE mainpc
  /\ segments' = 0
  /\ failPoint' = "none"
  /\ errorLogged' = FALSE
  /\ exc' = FALSE
  /\ entryDisk' = disk
  /\ entryCalls' = extractCalls + transcribeCalls
  /\ log' = Append(log, IF exc THEN ErrorRecord(cur)
                               ELSE Progress("Finished", cur))
  /\ UNCHANGED << run, prevExited, mp4_files, cur, disk, jobState,
                  extractCalls, transcribeCalls, runStartSrt, unlinkFaults,
                  nonBatch >>

\* do_srt returned: log "Finished"; or it raised: the except clause of the
\* loop logs the error instead.  Either way go on with the loop; the job's
\* locals are gone.
MainFinished ==
  /\ mainpc = "running" /\ pc = "returned"
  /\ pc' = "idle"
  /\ segments' = 0
  /\ failPoint' = "none"
  /\ errorLogged' = FALSE
  /\ exc' = FALSE
  /\ entryDisk' = disk
  /\ entryCalls' = extractCalls + transcribeCalls
  /\ log' = Append(log, IF exc THEN ErrorRecord(cur)
                               ELSE Progress("Finished", cur))
  /\ UNCHANGED << run, prevExited, mainpc, mp4_files, cur, disk, jobState,
                  extractCalls, transcribeCalls, runStartSrt, unlinkFaults,
                  nonBatch >>

\* The loop is over: main returns.
MainReturn ==
  /\ mainpc = "running" /\ pc = "idle" /\ cur = Len(mp4_files)
  /\ mainpc' = "exited"
  /\ UNCHANGED << run, prevExited, mp4_files, cur, pc, disk, segments,
                  jobState, failPoint, errorLogged, exc, extractCalls,
                  transcribeCalls, entryDisk, entryCalls, runStartSrt,
                  log, unlinkFaults, nonBatch >>

\* A new process on the same directory: module state is fresh, the disk is
\* what the previous process left.
Restart(exited) ==
  /\ run < MaxRuns
  /\ run' = run + 1
  /\ prevExited' = exited
  /\ mainpc' = "running"
  /\ cur' = 0
  /\ pc' = "idle"
  /\ segments' = 0
  /\ jobState' = [v \in Videos |-> "Pending"]
  /\ failPoint' = "none"
  /\ errorLogged' = FALSE
  /\ exc' = FALSE
  /\ extractCalls' = 0
  /\ transcribeCalls' = 0
  /\ entryDisk' = disk
  /\ entryCalls' = 0
  /\ runStartSrt' = Finals(disk)
  /\ log' = << >>
  /\ UNCHANGED << mp4_files, disk, unlinkFaults, nonBatch >>

\* The program is run again after main returned.
StartRun ==
  /\ mainpc = "exited"
  /\ Restart(TRUE)

\* The process is killed at this point (no handler, no finally block runs)
\* and the program is started again.
Kill ==
  /\ mainpc = "running"
  /\ Restart(FALSE)

\* ---------------------------------------------------------------- do_srt
\* What a step of the current job leaves alone besides its own effect.
faultFrame == << run, prevExited, mainpc, mp4_files, cur, entryDisk,
                entryCalls, runStartSrt, log, nonBatch >>

\* The same for a step in which no os.unlink raises.
jobFrame == << faultFrame, unlinkFaults >>

\* A guard that looks at the temporary subtitle instead of the final one.
AlreadyDoneChecksTemp(d, v) == Exists(d, temp_srt(v))

\* The entry guard of do_srt: os.path.exists(srt_path).
AlreadyDone(d, v) == Exists(d, srt_path(v))

\* A job that never skips.
DoSrtGuardNeverSkips ==
  /\ mainpc = "running" /\ pc = "guard"
  /\ jobState' = [jobState EXCEPT ![file] = "ExtractingAudio"]
  /\ pc' = "extract"
  /\ UNCHANGED << jobFrame, disk, segments, failPoint,
                  errorLogged, exc, extractCalls, transcribeCalls >>

\* if os.path.exists(srt_path): log and return, before the try block.
DoSrtGuard ==
  /\ mainpc = "running" /\ pc = "guard"
  /\ IF AlreadyDone(disk, file)
       THEN /\ jobState' = [jobState EXCEPT ![file] = "Skipped"]
            /\ pc' = "returned"
       ELSE /\ jobState' = [jobState EXCEPT ![file] = "ExtractingAudio"]
            /\ pc' = "extract"
  /\ UNCHANGED << jobFrame, disk, segments, failPoint,
                  errorLogged, exc, extractCalls, transcribeCalls >>

\* extract_audio returned True: ffmpeg wrote the waveform.
ExtractAudioOk ==
  /\ mainpc = "running" /\ pc = "extract"
  /\ extractCalls' = extractCalls + 1
  /\ disk' = [disk EXCEPT ![temp_wav(file)] = Opened(file, 0)]
  /\ jobState' = [jobState EXCEPT ![file] = "Transcribing"]
  /\ pc' = "model"
  /\ UNCHANGED << jobFrame, segments, failPoint, errorLogged,
                  exc, transcribeCalls >>

\* A do_srt that ignores what extract_audio returned and goes on.
ExtractAudioFalseContinues ==
  /\ mainpc = "running" /\ pc = "extract"
  /\ extractCalls' = extractCalls + 1
  /\ errorLogged' = TRUE
  /\ failPoint' = "extract"
  /\ pc' = "model"
  /\ UNCHANGED << jobFrame, disk, segments, jobState, exc, transcribeCalls >>

\* extract_audio caught CalledProcessError or FileNotFoundError, logged it
\* and returned False: do_srt returns from inside the try block.  ffmpeg
\* may have left a truncated waveform behind.
ExtractAudioFalse ==
  /\ mainpc = "running" /\ pc = "extract"
  /\ extractCalls' = extractCalls + 1
  /\ \E left \in BOOLEAN :
       disk' = IF left
                 THEN [disk EXCEPT ![temp_wav(file)] = Opened(file, 0)]
                 ELSE disk
  /\ errorLogged' = TRUE
  /\ jobState' = [jobState EXCEPT ![file] = "Failed"]
  /\ failPoint' = "extract"
  /\ pc' = "finally"
  /\ UNCHANGED << jobFrame, segments, exc, transcribeCalls >>

\* extract_audio let another exception through (it catches only two).
ExtractAudioRaise ==
  /\ mainpc = "running" /\ pc = "extract"
  /\ extractCalls' = extractCalls + 1
  /\ failPoint' = "extract"
  /\ pc' = "except"
  /\ UNCHANGED << jobFrame, disk, segments, jobState,
                  errorLogged, exc, transcribeCalls >>

\* model = WhisperModel("large-v3", ...)
LoadModel ==
  /\ mainpc = "running" /\ pc = "model"
  /\ \/ /\ pc' = "transcribe"
        /\ UNCHANGED failPoint
     \/ /\ pc' = "except"
        /\ failPoint' = "model"
  /\ UNCHANGED << jobFrame, disk, segments, jobState,
                  errorLogged, exc, extractCalls, transcribeCalls >>

\* segments, info = model.transcribe(temp_wav, beam_size=5, language="ja")
\* returns a lazy generator of k segments.
Transcribe ==
  /\ mainpc = "running" /\ pc = "transcribe"
  /\ transcribeCalls' = transcribeCalls + 1
  /\ \E k \in 0..MaxSeg : segments' = k
  /\ jobState' = [jobState EXCEPT ![file] = "Writing"]
  /\ pc' = "open"
  /\ UNCHANGED << jobFrame, disk, failPoint, errorLogged, exc,
                  extractCalls >>

TranscribeRaise ==
  /\ mainpc = "running" /\ pc = "transcribe"
  /\ transcribeCalls' = transcribeCalls + 1
  /\ failPoint' = "transcribe"
  /\ pc' = "except"
  /\ UNCHANGED << jobFrame, disk, segments, jobState,
                  errorLogged, exc, extractCalls >>

\* A do_srt that has convert_to_srt write to the final path.
OutputPathIsFinal(v) == srt_path(v)

\* The path convert_to_srt is given by do_srt.
OutputPath(v) == temp_srt(v)

\* convert_to_srt: open(output_path, "w") creates or truncates the file.
OpenOutput ==
  /\ mainpc = "running" /\ pc = "open"
  /\ disk' = [disk EXCEPT ![OutputPath(file)] = Opened(file, segments)]
  /\ pc' = "write"
  /\ UNCHANGED << jobFrame, segments, jobState, failPoint,
                  errorLogged, exc, extractCalls, transcribeCalls >>

OpenOutputRaise ==
  /\ mainpc = "running" /\ pc = "open"
  /\ failPoint' = "write"
  /\ pc' = "except"
  /\ UNCHANGED << jobFrame, disk, segments, jobState,
                  errorLogged, exc, extractCalls, transcribeCalls >>

\* convert_to_srt: one iteration of the loop over the segments, the three
\* writes of one entry.
WriteSegment ==
  /\ mainpc = "running" /\ pc = "write"
  /\ disk[OutputPath(file)].missing > 0
  /\ disk' = [disk EXCEPT ![OutputPath(file)].missing = @ - 1]
  /\ UNCHANGED << jobFrame, pc, segments, jobState, failPoint,
                  errorLogged, exc, extractCalls, transcribeCalls >>

\* convert_to_srt: the generator, a write or the close raises; the entry
\* being written is torn and the file stays as far as it was written.
WriteRaise ==
  /\ mainpc = "running" /\ pc = "write"
  /\ failPoint' = "write"
  /\ pc' = "except"
  /\ UNCHANGED << jobFrame, disk, segments, jobState,
                  errorLogged, exc, extractCalls, transcribeCalls >>

\* convert_to_srt: the loop is over, the file is closed, return True.
WriteDone ==
  /\ mainpc = "running" /\ pc = "write"
  /\ disk[OutputPath(file)].missing = 0
  /\ jobState' = [jobState EXCEPT ![file] = "Publishing"]
  /\ pc' = "rename"
  /\ UNCHANGED << jobFrame, disk, segments, failPoint,
                  errorLogged, exc, extractCalls, transcribeCalls >>

\* os.rename(temp_srt, srt_path); it raises when temp_srt does not exist.
Rename ==
  /\ mainpc = "running" /\ pc = "rename"
  /\ IF Exists(disk, temp_srt(file))
       THEN /\ disk' = [disk EXCEPT ![srt_path(file)] = disk[temp_srt(file)],
                                    ![temp_srt(file)] = Absent]
            /\ pc' = "unlink"
            /\ UNCHANGED failPoint
       ELSE /\ failPoint' = "rename"
            /\ pc' = "except"
            /\ UNCHANGED disk
  /\ UNCHANGED << jobFrame, segments, jobState, errorLogged, exc,
                  extractCalls, transcribeCalls >>

RenameRaise ==
  /\ mainpc = "running" /\ pc = "rename"
  /\ failPoint' = "rename"
  /\ pc' = "except"
  /\ UNCHANGED << jobFrame, disk, segments, jobState,
                  errorLogged, exc, extractCalls, transcribeCalls >>

\* os.unlink(temp_wav) and the log of success; the unlink raises when
\* temp_wav does not exist.
UnlinkWav ==
  /\ mainpc = "running" /\ pc = "unlink"
  /\ IF Exists(disk, temp_wav(file))
       THEN /\ disk' = [disk EXCEPT ![temp_wav(file)] = Absent]
            /\ jobState' = [jobState EXCEPT ![file] = "Done"]
            /\ pc' = "finally"
            /\ UNCHANGED failPoint
       ELSE /\ failPoint' = "unlink"
            /\ pc' = "except"
            /\ UNCHANGED << disk, jobState >>
  /\ UNCHANGED << jobFrame, segments, errorLogged, exc, extractCalls,
                  transcribeCalls >>

\* os.unlink(temp_wav) raises although the file is there: the subtitle is
\* published already, the waveform stays.
UnlinkWavRaise ==
  /\ mainpc = "running" /\ pc = "unlink"
  /\ unlinkFaults < MaxUnlinkFaults
  /\ unlinkFaults' = unlinkFaults + 1
  /\ failPoint' = "unlink"
  /\ pc' = "except"
  /\ UNCHANGED << faultFrame, disk, segments, jobState,
                  errorLogged, exc, extractCalls, transcribeCalls >>

\* A handler that logs and raises again.
ExceptHandlerReraises ==
  /\ mainpc = "running" /\ pc = "except"
  /\ errorLogged' = TRUE
  /\ exc' = TRUE
  /\ jobState' = [jobState EXCEPT ![file] = "Failed"]
  /\ pc' = "finally"
  /\ UNCHANGED << jobFrame, disk, segments, failPoint, extractCalls,
                  transcribeCalls >>

\* except Exception as e: logging.error(...)
ExceptHandler ==
  /\ mainpc = "running" /\ pc = "except"
  /\ errorLogged' = TRUE
  /\ jobState' = [jobState EXCEPT ![file] = "Failed"]
  /\ pc' = "finally"
  /\ UNCHANGED << jobFrame, disk, segments, failPoint, exc,
                  extractCalls, transcribeCalls >>

\* finally: if os.path.exists(temp_wav): os.unlink(temp_wav)
FinallyWav ==
  /\ mainpc = "running" /\ pc = "finally"
  /\ disk' = [disk EXCEPT ![temp_wav(file)] = Absent]
  /\ pc' = "finally_srt"
  /\ UNCHANGED << jobFrame, segments, jobState, failPoint,
                  errorLogged, exc, extractCalls, transcribeCalls >>

\* finally: os.unlink(temp_wav) raises; the exception leaves do_srt and the
\* rest of the finally block does not run.
FinallyWavRaise ==
  /\ mainpc = "running" /\ pc = "finally"
  /\ unlinkFaults < MaxUnlinkFaults
  /\ unlinkFaults' = unlinkFaults + 1
  /\ Exists(disk, temp_wav(file))
  /\ exc' = TRUE
  /\ pc' = "returned"
  /\ UNCHANGED << faultFrame, disk, segments, jobState, failPoint,
                  errorLogged, extractCalls, transcribeCalls >>

\* A finally block that forgets the temporary subtitle.
FinallySrtKeeps ==
  /\ mainpc = "running" /\ pc = "finally_srt"
  /\ pc' = "returned"
  /\ UNCHANGED << jobFrame, disk, segments, jobState, failPoint,
                  errorLogged, exc, extractCalls, transcribeCalls >>

\* finally: if os.path.exists(temp_srt): os.unlink(temp_srt); return.
FinallySrt ==
  /\ mainpc = "running" /\ pc = "finally_srt"
  /\ disk' = [disk EXCEPT ![temp_srt(file)] = Absent]
  /\ pc' = "returned"
  /\ UNCHANGED << jobFrame, segments, jobState, failPoint,
                  errorLogged, exc, extractCalls, transcribeCalls >>

\* finally: os.unlink(temp_srt) raises; the exception leaves do_srt.
FinallySrtRaise ==
  /\ mainpc = "running" /\ pc = "finally_srt"
  /\ unlinkFaults < MaxUnlinkFaults
  /\ unlinkFaults' = unlinkFaults + 1
  /\ Exists(disk, temp_srt(file))
  /\ exc' = TRUE
  /\ pc' = "returned"
  /\ UNCHANGED << faultFrame, disk, segments, jobState, failPoint,
                  errorLogged, extractCalls, transcribeCalls >>

DoSrt ==
  \/ DoSrtGuard
  \/ ExtractAudioOk \/ ExtractAudioFalse \/ ExtractAudioRaise
  \/ LoadModel
  \/ Transcribe \/ TranscribeRaise
  \/ OpenOutput \/ OpenOutputRaise
  \/ WriteSegment \/ WriteRaise \/ WriteDone
  \/ Rename \/ RenameRaise
  \/ UnlinkWav \/ UnlinkWavRaise
  \/ ExceptHandler
  \/ FinallyWav \/ FinallyWavRaise
  \/ FinallySrt \/ FinallySrtRaise

Run == MainNextFile \/ DoSrt \/ MainFinished \/ MainReturn \/ StartRun

Next == Run \/ Kill

Spec == Init /\ [][Next]_vars

\* The same program with no kill, every enabled step eventually taken: the
\* calls of do_srt are blocking calls that return.
FairSpec == Init /\ [][Run]_vars /\ WF_vars(Run)

\* ------------------------------------------------------------ do_summary
\* A text is the sequence of its runs << c, n >>: the character c repeated
\* n >= 1 times.  This keeps a line of 65536 bytes a value TLC can hold.
MaxLines == 3

NL == "\n"

\* len(c.encode('utf-8')) for the characters of the model: ASCII, and
\* U+3042 (hiragana a), three bytes in UTF-8.
BytesOf(c) == IF c = "U+3042" THEN 3 ELSE 1

\* len(t.encode('utf-8'))
RECURSIVE ByteSize(_)
ByteSize(t) ==
  IF t = << >> THEN 0
  ELSE Head(t)[2] * BytesOf(Head(t)[1]) + ByteSize(Tail(t))

\* The characters str.strip() removes.
Whitespace == { " ", "\t", "\r", NL }

RECURSIVE LStrip(_)
LStrip(t) ==
  IF t # << >> /\ Head(t)[1] \in Whitespace THEN LStrip(Tail(t)) ELSE t

RECURSIVE RStrip(_)
RStrip(t) ==
  IF t # << >> /\ t[Len(t)][1] \in Whitespace
    THEN RStrip(SubSeq(t, 1, Len(t) - 1))
    ELSE t

\* line.strip()
Strip(t) == RStrip(LStrip(t))

\* The characters of ' 0123456789.:,->-'.
FilterChars == { " ", "0", "1", "2", "3", "4", "5", "6", "7", "8", "9",
                 ".", ":", ",", "-", ">" }

\* all(c in ' 0123456789.:,->-' for c in line): true of the empty line.
OnlyFilterChars(t) == \A i \in DOMAIN t : t[i][1] \in FilterChars

\* text.split('\n')
RECURSIVE SplitLoop(_, _, _)
SplitLoop(t, line, acc) ==
  IF t = << >> THEN Append(acc, line)
  ELSE IF Head(t)[1] = NL
    THEN SplitLoop(IF Head(t)[2] > 1
                     THEN << << NL, Head(t)[2] - 1 >> >> \o Tail(t)
                     ELSE Tail(t),
                   << >>, Append(acc, line))
    ELSE SplitLoop(Tail(t), Append(line, Head(t)), acc)

Split(t) == SplitLoop(t, << >>, << >>)

\* '\n'.join(lines)
RECURSIVE Join(_)
Join(lines) ==
  IF lines = << >> THEN << >>
  ELSE IF Len(lines) = 1 THEN lines[1]
  ELSE lines[1] \o << << NL, 1 >> >> \o Join(Tail(lines))

MAX_BLOCK_SIZE == 64 * 1024

\* A loop body that starts the new block empty and so loses the line.
ChunkStepDropsLine(acc, raw) ==
  LET line == Strip(raw)
      line_size == ByteSize(line)
  IN IF OnlyFilterChars(line) THEN acc
     ELSE IF acc.current_size + line_size > MAX_BLOCK_SIZE
             /\ acc.current_block # << >>
       THEN [blocks |-> Append(acc.blocks, Join(acc.current_block)),
             current_block |-> << >>,
             current_size |-> 0]
       ELSE [blocks |-> acc.blocks,
             current_block |-> Append(acc.current_block, line),
             current_size |-> acc.current_size + line_size]

\* The body of the loop over content.split('\n').
ChunkStep(acc, raw) ==
  LET line == Strip(raw)
      line_size == ByteSize(line)
  IN IF OnlyFilterChars(line) THEN acc
     ELSE IF acc.current_size + line_size > MAX_BLOCK_SIZE
             /\ acc.current_block # << >>
       THEN [blocks |-> Append(acc.blocks, Join(acc.current_block)),
             current_block |-> << line >>,
             current_size |-> line_size]
       ELSE [blocks |-> acc.blocks,
             current_block |-> Append(acc.current_block, line),
             current_size |-> acc.current_size + line_size]

RECURSIVE ChunkLoop(_, _)
ChunkLoop(lines, acc) ==
  IF lines = << >> THEN acc
  ELSE ChunkLoop(Tail(lines), ChunkStep(acc, Head(lines)))

\* A chunker that flushes the last block even when it is empty.
ChunksAlwaysFlush(text) ==
  LET acc == ChunkLoop(Split(text),
                       [blocks |-> << >>, current_block |-> << >>,
                        current_size |-> 0])
  IN Append(acc.blocks, Join(acc.current_block))

\* The blocks do_summary builds from the text it read.
Chunks(text) ==
  LET acc == ChunkLoop(Split(text),
                       [blocks |-> << >>, current_block |-> << >>,
                        current_size |-> 0])
  IN IF acc.current_block # << >>
       THEN Append(acc.blocks, Join(acc.current_block))
       ELSE acc.blocks

\* '\n\n'.join(summaries), as the sequence of its pieces.
RECURSIVE JoinBlank(_)
JoinBlank(ss) ==
  IF ss = << >> THEN << >>
  ELSE IF Len(ss) = 1 THEN << ss[1] >>
  ELSE << ss[1], "\n\n" >> \o JoinBlank(Tail(ss))

\* The lines a subtitle file is made of in the model: an empty line, an
\* index line, a timestamp line, short text, padded text, and text of half
\* the block size, of the block size and beyond it.
LinePool ==
  { << >>,
    << << "1", 1 >> >>,
    << << "0", 2 >>, << ":", 1 >>, << " ", 1 >>, << "-", 2 >>, << ">", 1 >> >>,
    << << "a", 1 >> >>,
    << << " ", 1 >>, << "U+3042", 1 >>, << " ", 2 >> >>,
    << << "a", 32768 >> >>,
    << << "a", 65536 >> >>,
    << << "U+3042", 21846 >> >> }

\* The texts of at most MaxLines lines.
Texts == { Join(ls) : ls \in UNION { [1..k -> LinePool] : k \in 1..MaxLines } }

\* What get_summary may return.
SummaryPool == { "s1", "s2" }

\* The batch is not running.
BatchOff ==
  /\ run = 0
  /\ prevExited = FALSE
  /\ mainpc = "off"
  /\ mp4_files = << >>
  /\ cur = 0
  /\ pc = "idle"
  /\ disk = [p \in AllPaths |-> Absent]
  /\ segments = 0
  /\ jobState = [v \in Videos |-> "Pending"]
  /\ failPoint = "none"
  /\ errorLogged = FALSE
  /\ exc = FALSE
  /\ extractCalls = 0
  /\ transcribeCalls = 0
  /\ entryDisk = disk
  /\ entryCalls = 0
  /\ runStartSrt = Finals(disk)
  /\ log = << >>
  /\ unlinkFaults = 0

\* do_summary(video_path) is called on a directory holding any subtitle
\* and possibly a summary.
SummaryInit ==
  /\ BatchOff
  /\ WritersOff
  /\ SingleOff
  /\ spc = "guard"
  /\ srt_exists \in BOOLEAN
  /\ srt_text \in (IF srt_exists THEN Texts ELSE { << >> })
  /\ summary_exists \in BOOLEAN
  /\ summary_text = (IF summary_exists THEN << "old" >> ELSE << >>)
  /\ content = << >>
  /\ blocks = << >>
  /\ summaries = << >>
  /\ summaryCalls = << >>
  /\ summaryError = FALSE
  /\ summaryReturns = << >>
  /\ sfail = "none"

sdisk == << srt_exists, srt_text, summary_exists, summary_text >>

\* The two checks before the try block.
SummaryGuard ==
  /\ spc = "guard"
  /\ spc' = IF ~srt_exists \/ summary_exists THEN "returned" ELSE "read"
  /\ UNCHANGED << nonSummary, sdisk, content, blocks, summaries, summaryCalls,
                  summaryError,
                  summaryReturns, sfail >>

\* with open(srt_path, 'r') as f: content = f.read()
ReadSrt ==
  /\ spc = "read"
  /\ content' = srt_text
  /\ spc' = "chunk"
  /\ UNCHANGED << nonSummary, sdisk, blocks, summaries, summaryCalls,
                  summaryError,
                  summaryReturns, sfail >>

ReadSrtRaise ==
  /\ spc = "read"
  /\ spc' = "except"
  /\ sfail' = "read"
  /\ UNCHANGED << nonSummary, sdisk, content, blocks, summaries, summaryCalls,
                  summaryError,
                  summaryReturns >>

\* The chunking loop and the flush of the last block.
Chunk ==
  /\ spc = "chunk"
  /\ blocks' = Chunks(content)
  /\ spc' = "summarize"
  /\ UNCHANGED << nonSummary, sdisk, content, summaries, summaryCalls,
                  summaryError,
                  summaryReturns, sfail >>

\* A loop that keeps a summary only the first time it is returned.
GetSummaryDedups ==
  /\ spc = "summarize"
  /\ Len(summaryCalls) < Len(blocks)
  /\ \E sm \in SummaryPool :
       /\ summaries' = IF \E i \in DOMAIN summaries : summaries[i] = sm
                         THEN summaries ELSE Append(summaries, sm)
       /\ summaryReturns' = Append(summaryReturns, sm)
  /\ summaryCalls' = Append(summaryCalls, blocks[Len(summaryCalls) + 1])
  /\ UNCHANGED << nonSummary, sdisk, spc, content, blocks, summaryError,
                  sfail >>

\* One iteration of the loop over the blocks: summary = get_summary(block).
GetSummary ==
  /\ spc = "summarize"
  /\ Len(summaries) < Len(blocks)
  /\ \E sm \in SummaryPool :
       /\ summaries' = Append(summaries, sm)
       /\ summaryReturns' = Append(summaryReturns, sm)
  /\ summaryCalls' = Append(summaryCalls, blocks[Len(summaries) + 1])
  /\ UNCHANGED << nonSummary, sdisk, spc, content, blocks, summaryError,
                  sfail >>

GetSummaryRaise ==
  /\ spc = "summarize"
  /\ Len(summaries) < Len(blocks)
  /\ summaryCalls' = Append(summaryCalls, blocks[Len(summaries) + 1])
  /\ spc' = "except"
  /\ sfail' = "summarizer"
  /\ UNCHANGED << nonSummary, sdisk, content, blocks, summaries, summaryError,
                  summaryReturns >>

\* open(summary_path, 'w') creates the file, empty.
OpenSummary ==
  /\ spc = "summarize"
  /\ Len(summaries) = Len(blocks)
  /\ summary_exists' = TRUE
  /\ summary_text' = << >>
  /\ spc' = "write"
  /\ UNCHANGED << nonSummary, srt_exists, srt_text, content, blocks, summaries,
                  summaryCalls, summaryError,
                  summaryReturns, sfail >>

OpenSummaryRaise ==
  /\ spc = "summarize"
  /\ Len(summaries) = Len(blocks)
  /\ spc' = "except"
  /\ sfail' = "open"
  /\ UNCHANGED << nonSummary, sdisk, content, blocks, summaries, summaryCalls,
                  summaryError,
                  summaryReturns >>

\* f.write(final_summary), the close and the log.
WriteSummary ==
  /\ spc = "write"
  /\ summary_text' = JoinBlank(summaries)
  /\ spc' = "returned"
  /\ UNCHANGED << nonSummary, srt_exists, srt_text, summary_exists, content,
                  blocks, summaries, summaryCalls, summaryError,
                  summaryReturns, sfail >>

\* The write or the close raises: any part of the text may have reached
\* the file.
WriteSummaryRaise ==
  /\ spc = "write"
  /\ \E k \in 0..Len(JoinBlank(summaries)) :
       summary_text' = SubSeq(JoinBlank(summaries), 1, k)
  /\ spc' = "except"
  /\ sfail' = "write"
  /\ UNCHANGED << nonSummary, srt_exists, srt_text, summary_exists, content,
                  blocks, summaries, summaryCalls, summaryError,
                  summaryReturns >>

\* except Exception as e: logging.error(...)
SummaryExcept ==
  /\ spc = "except"
  /\ summaryError' = TRUE
  /\ spc' = "returned"
  /\ UNCHANGED << nonSummary, sdisk, content, blocks, summaries, summaryCalls,
                  summaryReturns, sfail >>

SummaryNext ==
  \/ SummaryGuard
  \/ ReadSrt \/ ReadSrtRaise
  \/ Chunk
  \/ GetSummary \/ GetSummaryRaise
  \/ OpenSummary \/ OpenSummaryRaise
  \/ WriteSummary \/ WriteSummaryRaise
  \/ SummaryExcept

SpecSummary == SummaryInit /\ [][SummaryNext]_vars

\* ------------------------------------------------------ subtitle writers
\* format_time is given a float.  A time of the model is a whole number k of
\* milliseconds, and the float is the binary64 number nearest to k / 1000.
\* binary64 arithmetic is computed exactly: a float is m * 2^e with m a
\* natural number of at most 53 bits, held as the sequence of its 15-bit
\* limbs, least significant first (<< >> is zero).
MaxDoc == 2

Limb == 2 ^ 15

RECURSIVE BigOfInt(_)
BigOfInt(n) ==
  IF n = 0 THEN << >> ELSE << n % Limb >> \o BigOfInt(n \div Limb)

RECURSIVE IntOfBig(_)
IntOfBig(b) == IF b = << >> THEN 0 ELSE b[1] + Limb * IntOfBig(Tail(b))

\* b * m + carry, for 0 < m <= Limb.
RECURSIVE BigMulSmall(_, _, _)
BigMulSmall(b, m, carry) ==
  IF b = << >> THEN BigOfInt(carry)
  ELSE LET x == b[1] * m + carry
       IN << x % Limb >> \o BigMulSmall(Tail(b), m, x \div Limb)

RECURSIVE BigAddSmall(_, _)
BigAddSmall(b, a) ==
  IF a = 0 THEN b
  ELSE IF b = << >> THEN BigOfInt(a)
  ELSE LET x == b[1] + a
       IN << x % Limb >> \o BigAddSmall(Tail(b), x \div Limb)

\* Quotient and remainder of b by d, for 0 < d <= Limb.
RECURSIVE BigDivSmall(_, _)
BigDivSmall(b, d) ==
  IF b = << >> THEN [q |-> << >>, r |-> 0]
  ELSE LET hi == BigDivSmall(Tail(b), d)
           x == hi.r * Limb + b[1]
       IN [q |-> IF x \div d = 0 /\ hi.q = << >> THEN << >>
                 ELSE << x \div d >> \o hi.q,
           r |-> x % d]

RECURSIVE BitLenSmall(_)
BitLenSmall(n) == IF n = 0 THEN 0 ELSE 1 + BitLenSmall(n \div 2)

\* The number of bits of b.
BitLen(b) ==
  IF b = << >> THEN 0 ELSE 15 * (Len(b) - 1) + BitLenSmall(b[Len(b)])

\* b * 2^n
RECURSIVE ShiftLeft(_, _)
ShiftLeft(b, n) ==
  IF n = 0 \/ b = << >> THEN b
  ELSE IF n >= 15 THEN ShiftLeft(<< 0 >> \o b, n - 15)
  ELSE BigMulSmall(b, 2 ^ n, 0)

\* floor(b / 2^n)
RECURSIVE FloorShift(_, _)
FloorShift(b, n) ==
  IF n = 0 \/ b = << >> THEN b
  ELSE IF n >= 15 THEN FloorShift(Tail(b), n - 15)
  ELSE BigDivSmall(b, 2 ^ n).q

\* The rounding of binary64 (to nearest, ties to even) of q + r / d.
RoundHalfEven(q, r, d) ==
  IF 2 * r > d \/ (2 * r = d /\ q # << >> /\ q[1] % 2 = 1)
    THEN BigAddSmall(q, 1)
    ELSE q

\* The binary64 number nearest to n / d, for 0 < d <= Limb: what Python
\* makes of the literal, and of the true division n / d of two ints.  The
\* scale s is the one that gives the quotient 53 bits; it is one of two.
FloatOfRatio(n, d) ==
  IF n = 0 THEN [m |-> << >>, e |-> 0]
  ELSE LET Quot(s) == BigDivSmall(ShiftLeft(BigOfInt(n), s), d)
           s0 == 52 - BitLenSmall(n) + BitLenSmall(d)
           s == IF BitLen(Quot(s0).q) = 53 THEN s0 ELSE s0 + 1
           qr == Quot(s)
       IN [m |-> RoundHalfEven(qr.q, qr.r, d), e |-> -s]

\* x * c in binary64, for a whole number 0 < c < 2^14: the exact product
\* rounded to 53 bits.
FloatMulSmall(x, c) ==
  LET p == BigMulSmall(x.m, c, 0)
      sh == BitLen(p) - 53
  IN IF sh <= 0 THEN [m |-> p, e |-> x.e]
     ELSE [m |-> RoundHalfEven(BigDivSmall(p, 2 ^ sh).q,
                               BigDivSmall(p, 2 ^ sh).r, 2 ^ sh),
           e |-> x.e + sh]

\* int(x) of a float x >= 0: truncation.
Trunc(x) ==
  IF x.e >= 0 THEN IntOfBig(ShiftLeft(x.m, x.e))
  ELSE IntOfBig(FloorShift(x.m, -x.e))

\* The float of a time of k milliseconds.
Seconds(k) == FloatOfRatio(k, 1000)

DigitChar == << "0", "1", "2", "3", "4", "5", "6", "7", "8", "9" >>

\* str(n), as the sequence of its characters.
RECURSIVE Digits(_)
Digits(n) ==
  IF n < 10 THEN << DigitChar[n + 1] >>
  ELSE Digits(n \div 10) \o << DigitChar[(n % 10) + 1] >>

\* f"{n:0wd}": at least w digits.
Pad(n, w) ==
  LET d == Digits(n)
  IN IF Len(d) >= w THEN d
     ELSE [i \in 1..w |-> IF i <= w - Len(d) THEN "0"
                          ELSE d[i - (w - Len(d))]]

\* The format string of both format_time functions.
Stamp(hours, minutes, seconds, milliseconds) ==
  Pad(hours, 2) \o << ":" >> \o Pad(minutes, 2) \o << ":" >>
    \o Pad(seconds, 2) \o << "," >> \o Pad(milliseconds, 3)

\* A format_time that wraps the hours at 24.
format_time_wraps(t) ==
  LET milliseconds == Trunc(FloatMulSmall(t, 1000)) % 1000
      seconds == Trunc(t) % 60
      minutes == (Trunc(t) \div 60) % 60
      hours == (Trunc(t) \div 3600) % 24
  IN Stamp(hours, minutes, seconds, milliseconds)

\* format_time of convert_to_srt in main.py.
format_time(t) ==
  LET milliseconds == Trunc(FloatMulSmall(t, 1000)) % 1000
      seconds == Trunc(t) % 60
      minutes == (Trunc(t) \div 60) % 60
      hours == Trunc(t) \div 3600
  IN Stamp(hours, minutes, seconds, milliseconds)

\* format_time of convert_to_srt in video2srt.py.  Its parameter seconds is
\* assigned int(seconds) % 60 before the minutes and the hours are computed
\* from it, by true division.
video2srt_format_time(t) ==
  LET milliseconds == Trunc(FloatMulSmall(t, 1000)) % 1000
      seconds == Trunc(t) % 60
      minutes == Trunc(FloatOfRatio(seconds, 60)) % 60
      hours == Trunc(FloatOfRatio(seconds, 3600))
  IN Stamp(hours, minutes, seconds, milliseconds)

\* The characters of a text given by its runs.
RECURSIVE Expand(_)
Expand(t) ==
  IF t = << >> THEN << >>
  ELSE [i \in 1..Head(t)[2] |-> Head(t)[1]] \o Expand(Tail(t))

Arrow == << " ", "-", "-", ">", " " >>

\* convert_to_srt of main.py: what the writes of the loop put into the
\* file, from the segment of index i on.
RECURSIVE convert_to_srt(_, _)
convert_to_srt(segs, i) ==
  IF i >= Len(segs) THEN << >>
  ELSE LET segment == segs[i + 1]
       IN Digits(i + 1) \o << NL >>
            \o format_time(Seconds(segment.start)) \o Arrow
            \o format_time(Seconds(segment.end)) \o << NL >>
            \o Expand(Strip(segment.text)) \o << NL, NL >>
            \o convert_to_srt(segs, i + 1)

\* convert_to_srt of video2srt.py: srt_content after the loop, which is
\* written in one piece.
RECURSIVE video2srt_convert_to_srt(_, _)
video2srt_convert_to_srt(segs, i) ==
  IF i >= Len(segs) THEN << >>
  ELSE LET segment == segs[i + 1]
           start_time == segment.start
           end_time == segment.end
           text == Strip(segment.text)
       IN Digits(i + 1) \o << NL >>
            \o video2srt_format_time(Seconds(start_time)) \o Arrow
            \o video2srt_format_time(Seconds(end_time)) \o << NL >>
            \o Expand(text) \o << NL, NL >>
            \o video2srt_convert_to_srt(segs, i + 1)

\* The times the writers are applied to: around the second, the minute,
\* the hour, 24 hours and 100 hours, with millisecond parts that binary64
\* holds exactly and parts it does not.
Times ==
  { 1000 * s + ms :
      s \in { 0, 1, 4, 59, 60, 3599, 3600, 3725, 86399, 86400, 90000,
              360000 },
      ms \in { 0, 1, 20, 250, 999 } }

\* The segments a transcription is made of in the model.
SegPool ==
  { [start |-> 0, end |-> 1500, text |-> << << " ", 1 >>, << "a", 2 >> >>],
    [start |-> 59500, end |-> 61250, text |-> << << "b", 1 >> >>],
    [start |-> 3725250, end |-> 3726000,
     text |-> << << "U+3042", 1 >>, << " ", 1 >> >>] }

SegLists == UNION { [1..k -> SegPool] : k \in 0..MaxDoc }

\* The writers are applied to a time and to a sequence of segments.
WritersInit ==
  /\ BatchOff
  /\ SummaryOff
  /\ SingleOff
  /\ t_ms \in Times
  /\ segs_in \in SegLists
  /\ fmt_main = << >>
  /\ fmt_single = << >>
  /\ doc_main = << >>
  /\ doc_single = << >>
  /\ applied = { }

FormatTimeMain ==
  /\ "format_time" \notin applied
  /\ fmt_main' = format_time(Seconds(t_ms))
  /\ applied' = applied \cup { "format_time" }
  /\ UNCHANGED << nonWriters, t_ms, segs_in, fmt_single, doc_main,
                  doc_single >>

FormatTimeSingle ==
  /\ "video2srt_format_time" \notin applied
  /\ fmt_single' = video2srt_format_time(Seconds(t_ms))
  /\ applied' = applied \cup { "video2srt_format_time" }
  /\ UNCHANGED << nonWriters, t_ms, segs_in, fmt_main, doc_main,
                  doc_single >>

ConvertMain ==
  /\ "convert_to_srt" \notin applied
  /\ doc_main' = convert_to_srt(segs_in, 0)
  /\ applied' = applied \cup { "convert_to_srt" }
  /\ UNCHANGED << nonWriters, t_ms, segs_in, fmt_main, fmt_single,
                  doc_single >>

ConvertSingle ==
  /\ "video2srt_convert_to_srt" \notin applied
  /\ doc_single' = video2srt_convert_to_srt(segs_in, 0)
  /\ applied' = applied \cup { "video2srt_convert_to_srt" }
  /\ UNCHANGED << nonWriters, t_ms, segs_in, fmt_main, fmt_single,
                  doc_main >>

WritersNext ==
  \/ FormatTimeMain \/ FormatTimeSingle
  \/ ConvertMain \/ ConvertSingle

SpecWriters == WritersInit /\ [][WritersNext]_vars

\* ------------------------------------------------------ video2srt.py
\* The extensions input_file may have.
Exts == { ".mp4", ".MP4", ".mkv", ".mov", ".avi", ".wav", ".mp3", ".ogg",
          ".flac", ".txt" }

\* ext.lower()
Lower(e) == IF e = ".MP4" THEN ".mp4" ELSE e

VideoExts == { ".mp4", ".mkv", ".mov", ".avi" }

AudioExts == { ".wav", ".mp3", ".ogg", ".flac" }

IsVideo == Lower(ext) \in VideoExts

\* python video2srt.py input_file, in a directory holding neither
\* <base>.srt nor <base>_temp_audio.wav.
SingleInit ==
  /\ BatchOff
  /\ SummaryOff
  /\ WritersOff
  /\ vpc = "start"
  /\ ext \in Exts
  /\ temp_audio = FALSE
  /\ out_srt = NoFile
  /\ vsegs = << >>
  /\ vraised = FALSE

\* The if / elif / else on ext.lower().
SingleDispatch ==
  /\ vpc = "start"
  /\ vpc' = IF IsVideo THEN "extract"
            ELSE IF Lower(ext) \in AudioExts THEN "model"
            ELSE "exit"
  /\ UNCHANGED << nonSingle, ext, temp_audio, out_srt, vsegs, vraised >>

\* extract_audio returned True: ffmpeg wrote the waveform.
SingleExtractOk ==
  /\ vpc = "extract"
  /\ temp_audio' = TRUE
  /\ vpc' = "model"
  /\ UNCHANGED << nonSingle, ext, out_srt, vsegs, vraised >>

\* extract_audio caught CalledProcessError or FileNotFoundError and returned
\* False: main is over.  ffmpeg may have left a truncated waveform behind.
SingleExtractFalse ==
  /\ vpc = "extract"
  /\ temp_audio' \in BOOLEAN
  /\ vpc' = "exit"
  /\ UNCHANGED << nonSingle, ext, out_srt, vsegs, vraised >>

\* transcribe_audio: model = faster_whisper.WhisperModel(model_name), before
\* the try block; an exception it raises leaves transcribe_audio and main.
SingleLoadModel ==
  /\ vpc = "model"
  /\ \/ /\ vpc' = "transcribe"
        /\ UNCHANGED vraised
     \/ /\ vpc' = "exit"
        /\ vraised' = TRUE
  /\ UNCHANGED << nonSingle, ext, temp_audio, out_srt, vsegs >>

\* transcribe_audio: segments, info = model.transcribe(...)
SingleTranscribe ==
  /\ vpc = "transcribe"
  /\ vsegs' \in SegLists
  /\ vpc' = "convert"
  /\ UNCHANGED << nonSingle, ext, temp_audio, out_srt, vraised >>

\* Where main goes on when transcribe_audio has returned.
AfterTranscribeAudio == IF IsVideo THEN "remove" ELSE "exit"

\* transcribe_audio: model.transcribe raises; the except clause prints and
\* returns False.
SingleTranscribeRaise ==
  /\ vpc = "transcribe"
  /\ vpc' = AfterTranscribeAudio
  /\ UNCHANGED << nonSingle, ext, temp_audio, out_srt, vsegs, vraised >>

\* convert_to_srt builds srt_content and writes it in one piece;
\* transcribe_audio returns True.
SingleConvert ==
  /\ vpc = "convert"
  /\ out_srt' = video2srt_convert_to_srt(vsegs, 0)
  /\ vpc' = AfterTranscribeAudio
  /\ UNCHANGED << nonSingle, ext, temp_audio, vsegs, vraised >>

\* convert_to_srt raises, in the loop over the lazy segments or in open
\* (no file written), or in write (the file is there, here empty); the
\* except clause of transcribe_audio prints and returns False.
SingleConvertRaise ==
  /\ vpc = "convert"
  /\ out_srt' \in { out_srt, << >> }
  /\ vpc' = AfterTranscribeAudio
  /\ UNCHANGED << nonSingle, ext, temp_audio, vsegs, vraised >>

\* os.remove(temp_audio_path)
SingleRemove ==
  /\ vpc = "remove"
  /\ temp_audio' = FALSE
  /\ vpc' = "exit"
  /\ UNCHANGED << nonSingle, ext, out_srt, vsegs, vraised >>

\* os.remove raises: the exception leaves main, the waveform stays.
SingleRemoveRaise ==
  /\ vpc = "remove"
  /\ vraised' = TRUE
  /\ vpc' = "exit"
  /\ UNCHANGED << nonSingle, ext, temp_audio, out_srt, vsegs >>

SingleNext ==
  \/ SingleDispatch
  \/ SingleExtractOk \/ SingleExtractFalse
  \/ SingleLoadModel
  \/ SingleTranscribe \/ SingleTranscribeRaise
  \/ SingleConvert \/ SingleConvertRaise
  \/ SingleRemove \/ SingleRemoveRaise

SpecSingle == SingleInit /\ [][SingleNext]_vars

\* ---------------------------------------------------------------- claims
\* The job of video v has returned in this run.
Terminal(v) == jobState[v] \in {"Done", "Skipped", "Failed"}

InJob == mainpc = "running" /\ pc # "idle"

\* do_srt has returned to main by a return statement, no exception
\* propagating.
Returned == InJob /\ pc = "returned" /\ ~exc

\* C1: when do_srt returns from a job that found the final subtitle absent,
\* whichever step failed (or none), neither <stem>.temp.wav nor
\* <stem>.test.srt exists.
C1_CleanupInvariant ==
  (Returned /\ ~Exists(entryDisk, srt_path(file)))
    => /\ ~Exists(disk, temp_wav(file))
       /\ ~Exists(disk, temp_srt(file))

\* A job whose rename raised, with both temporary files written, has returned.
C1_Witness ==
  /\ Returned /\ failPoint = "rename"
  /\ ~Exists(entryDisk, srt_path(file))

\* C2: in every reachable state, a final subtitle path that exists holds a
\* completely written subtitle: no segment of the transcription it renders
\* is missing from it.
C2_PublishBarrier ==
  \A v \in Videos :
    Exists(disk, srt_path(v)) => disk[srt_path(v)].missing = 0

\* C3: a job that finds its final subtitle present goes from Pending to
\* Skipped, calls neither ffmpeg nor the transcriber and leaves every file
\* on disk as it was.
C3_EntryGuard ==
  (InJob /\ Exists(entryDisk, srt_path(file)))
    => /\ pc \in {"guard", "returned"}
       /\ jobState[file] = (IF pc = "guard" THEN "Pending" ELSE "Skipped")
       /\ extractCalls + transcribeCalls = entryCalls
       /\ disk = entryDisk

\* A job has been skipped and has returned.
C3_Witness ==
  /\ InJob /\ pc = "returned" /\ Exists(entryDisk, srt_path(file))
  /\ jobState[file] = "Skipped"

\* C4 as claimed: the second of two complete runs makes no transcription
\* call, ends every job in Skipped and leaves the final subtitles as the
\* first run left them.
C4_BatchIdempotence ==
  (run >= 2 /\ prevExited)
    => /\ transcribeCalls = 0
       /\ Finals(disk) = runStartSrt
       /\ mainpc = "exited" => \A v \in Videos : jobState[v] = "Skipped"

\* C4 as amended: the same, provided the first run left a final subtitle
\* for every file.
C4_BatchIdempotenceWhenAllPublished ==
  (run >= 2 /\ prevExited /\ \A v \in Videos : runStartSrt[v] # Absent)
    => /\ transcribeCalls = 0
       /\ extractCalls = 0
       /\ Finals(disk) = runStartSrt
       /\ \A v \in Videos : jobState[v] \in {"Pending", "Skipped"}
       /\ mainpc = "exited" => \A v \in Videos : jobState[v] = "Skipped"

\* The second run is over after a first run that published every file.
C4_Witness ==
  /\ run = 2 /\ prevExited /\ mainpc = "exited"
  /\ \A v \in Videos : runStartSrt[v] # Absent

\* C5: with no kill, every run that is started gets through every file of
\* its snapshot: each job reaches Done, Skipped or Failed and main returns,
\* whatever the earlier jobs did.
C5_BatchResilience ==
  (mainpc = "running") ~> (mainpc = "exited" /\ \A v \in Videos : Terminal(v))

\* The first job of a run failed at extraction, the second published its
\* subtitle, and main returned.
C5_Witness ==
  /\ mainpc = "exited"
  /\ jobState[mp4_files[1]] = "Failed" /\ extractCalls = 2
  /\ transcribeCalls = 1
  /\ jobState[mp4_files[2]] = "Done" /\ Exists(disk, srt_path(mp4_files[2]))

\* C6 as claimed: do_srt returns normally, never with an exception
\* propagating, and a job in which a step failed has logged the error and
\* is Failed.
C6_FailureContained ==
  (InJob /\ pc = "returned")
    => /\ ~exc
       /\ failPoint # "none" => (errorLogged /\ jobState[file] = "Failed")
       /\ Terminal(file)

\* C6 as amended: a job in which a step of the try block failed has logged
\* the error and is Failed, and an exception leaves do_srt only when an
\* os.unlink of the finally block raised, its file still on disk.
C6_OnlyCleanupPropagates ==
  (InJob /\ pc = "returned")
    => /\ failPoint # "none" => (errorLogged /\ jobState[file] = "Failed")
       /\ Terminal(file)
       /\ exc => \/ Exists(disk, temp_wav(file))
                 \/ Exists(disk, temp_srt(file))

\* A job whose transcription raised has logged it, and the unlink of its
\* waveform in the finally block raised in turn.
C6_Witness ==
  /\ InJob /\ pc = "returned" /\ failPoint = "transcribe"
  /\ exc /\ errorLogged

\* C7: when do_srt returns, in whatever state and whatever the files it
\* found, neither temporary path of its video exists.
C7_ArtifactSetInvariant ==
  Returned
    => /\ ~Exists(disk, temp_wav(file))
       /\ ~Exists(disk, temp_srt(file))

\* C11: for a time below 24 hours, given in whole milliseconds, format_time
\* of main.py returns HH:MM:SS,mmm with HH = floor(t / 3600), MM =
\* floor(t / 60) mod 60, SS = floor(t) mod 60 and mmm the milliseconds,
\* padded with zeros to 2, 2, 2 and 3 digits.
C11_FormatTime ==
  ("format_time" \in applied /\ t_ms < 86400000)
    => fmt_main = Stamp(t_ms \div 3600000, (t_ms \div 60000) % 60,
                        (t_ms \div 1000) % 60, t_ms % 1000)

\* The hours, minutes and seconds of a timestamp: all but ",mmm".
UpToSeconds(stamp) == SubSeq(stamp, 1, Len(stamp) - 4)

\* C12 as claimed: for a time of 24 hours or more the hours field of
\* format_time is floor(t / 3600) mod 24 and the timestamp is that of the
\* time 24 hours earlier.
C12_WrapsAt24h ==
  ("format_time" \in applied /\ t_ms >= 86400000)
    => /\ UpToSeconds(fmt_main)
            = Pad((t_ms \div 3600000) % 24, 2) \o << ":" >>
                \o Pad((t_ms \div 60000) % 60, 2) \o << ":" >>
                \o Pad((t_ms \div 1000) % 60, 2)
       /\ fmt_main = format_time(Seconds(t_ms - 86400000))

\* C12 as amended: for a time of 24 hours or more the hours field of
\* format_time is floor(t / 3600), not reduced modulo 24, the minutes and
\* the seconds are taken modulo 60, and the timestamp differs from that of
\* the time 24 hours earlier.
C12_HoursNotWrapped ==
  ("format_time" \in applied /\ t_ms >= 86400000)
    => /\ UpToSeconds(fmt_main)
            = Pad(t_ms \div 3600000, 2) \o << ":" >>
                \o Pad((t_ms \div 60000) % 60, 2) \o << ":" >>
                \o Pad((t_ms \div 1000) % 60, 2)
       /\ fmt_main # format_time(Seconds(t_ms - 86400000))

\* format_time was applied to 90000.25 seconds and returned 25:00:00,250.
C12_Witness ==
  /\ "format_time" \in applied /\ t_ms = 90000250
  /\ fmt_main = << "2", "5", ":", "0", "0", ":", "0", "0", ",",
                   "2", "5", "0" >>

\* C19: format_time of video2srt.py returns what format_time of main.py
\* returns for the same time, and convert_to_srt of video2srt.py writes
\* what convert_to_srt of main.py writes for the same segments.
C19_WriterEquivalence ==
  /\ {"format_time", "video2srt_format_time"} \subseteq applied
       => fmt_single = fmt_main
  /\ {"convert_to_srt", "video2srt_convert_to_srt"} \subseteq applied
       => doc_single = doc_main

\* C20: when video2srt.py ends after being given a video, whichever step
\* failed or none, <base>_temp_audio.wav does not exist.
C20_SingleFileCleanup ==
  (vpc = "exit" /\ IsVideo) => ~temp_audio

\* C13: a step of the job of one file leaves the final subtitle published
\* for another file as it is: it neither rewrites nor deletes it.
C13_PerFileIsolation ==
  [][\A v \in Videos :
       (InJob /\ v # file /\ disk[srt_path(v)].of = v)
         => disk'[srt_path(v)] = disk[srt_path(v)]]_vars

\* The jobs of this run that have ended.
Ended == IF pc = "idle" THEN cur ELSE cur - 1

\* C14: the log of a run holds, for every job that has ended, the record
\* "Processing" (index, total, path) and then the record "Finished" (index,
\* total, path), file after file, and the record "Processing" of the job
\* under way.
C14_ProgressReporting ==
  mainpc \in {"running", "exited"}
    => /\ Len(log) = 2 * Ended + (IF pc = "idle" THEN 0 ELSE 1)
       /\ \A i \in 1..Ended :
            /\ log[2 * i - 1] = Progress("Processing", i)
            /\ log[2 * i] = Progress("Finished", i)
       /\ pc # "idle" => log[2 * cur - 1] = Progress("Processing", cur)

\* The moves of a job from one state to the next.
StepOrder ==
  { << "Pending", "Skipped" >>, << "Pending", "ExtractingAudio" >>,
    << "ExtractingAudio", "Transcribing" >>, << "Transcribing", "Writing" >>,
    << "Writing", "Publishing" >>, << "Publishing", "Done" >>,
    << "ExtractingAudio", "Failed" >>, << "Transcribing", "Failed" >>,
    << "Writing", "Failed" >>, << "Publishing", "Failed" >> }

C18_FailedLeavesNoSubtitle ==
  (InJob /\ pc = "returned" /\ ~Exists(entryDisk, srt_path(file)))
    => /\ jobState[file] = "Failed" => ~Exists(disk, srt_path(file))
       /\ Exists(disk, srt_path(file)) => jobState[file] = "Done"

\* C18 as amended: when a job that found no final subtitle has ended, the
\* final subtitle exists exactly if os.rename succeeded: the job is Done,
\* or it Failed at the os.unlink that follows the rename.
C18_SubtitleIffRenamed ==
  (InJob /\ pc = "returned" /\ ~Exists(entryDisk, srt_path(file)))
    => (Exists(disk, srt_path(file))
          <=> \/ jobState[file] = "Done"
              \/ jobState[file] = "Failed" /\ failPoint = "unlink")

\* A job published its subtitle, then failed to delete its waveform and
\* ended Failed.
C18_Witness ==
  /\ InJob /\ pc = "returned" /\ ~Exists(entryDisk, srt_path(file))
  /\ jobState[file] = "Failed" /\ failPoint = "unlink"
  /\ disk[srt_path(file)] = Opened(file, 0)

\* The lines of the text read that qualify: stripped, and not made only of
\* the filter characters.
RECURSIVE Qualifying(_)
Qualifying(lines) ==
  IF lines = << >> THEN << >>
  ELSE (IF OnlyFilterChars(Strip(Head(lines))) THEN << >>
        ELSE << Strip(Head(lines)) >>) \o Qualifying(Tail(lines))

\* The lines of all blocks, in block order.
RECURSIVE BlockLines(_)
BlockLines(bs) ==
  IF bs = << >> THEN << >> ELSE Split(Head(bs)) \o BlockLines(Tail(bs))

\* C8: every block passed to the summarizer is at most 65536 bytes of
\* UTF-8, unless it is a single line.
C8_ChunkSizeBound ==
  \A i \in DOMAIN blocks :
    ByteSize(blocks[i]) <= MAX_BLOCK_SIZE \/ Len(Split(blocks[i])) = 1

\* C9: the lines of the blocks, in block order, are exactly the qualifying
\* lines of the text read, in their order.
C9_ChunkRoundTrip ==
  spc \in {"summarize", "write"}
    => BlockLines(blocks) = Qualifying(Split(content))

\* A text with a non-qualifying line was cut into two blocks or more.
C9_Witness ==
  /\ spc = "summarize"
  /\ Len(blocks) >= 2
  /\ Len(Qualifying(Split(content))) < Len(Split(content))

\* do_summary has written the summary file and returned.
SummaryWritten ==
  /\ spc = "returned" /\ sfail = "none"
  /\ srt_exists /\ summary_exists /\ summary_text # << "old" >>

\* C15: get_summary is called with the blocks one by one in block order,
\* every summary it returns is kept in that order, and the summary file
\* written holds one summary per block, joined in call order with a blank
\* line between two.
C15_SummarizerCallOrder ==
  /\ Len(summaryCalls) <= Len(blocks)
  /\ \A i \in DOMAIN summaryCalls : summaryCalls[i] = blocks[i]
  /\ summaries = summaryReturns
  /\ (spc = "write" \/ SummaryWritten)
       => /\ summaryCalls = blocks
          /\ Len(summaryReturns) = Len(blocks)
  /\ SummaryWritten => summary_text = JoinBlank(summaryReturns)

\* A summary of three blocks has been written, the summarizer having
\* returned the same text for the first and the third.
C15_Witness ==
  /\ SummaryWritten
  /\ Len(blocks) = 3
  /\ summaryReturns = << "s1", "s2", "s1" >>
  /\ summary_text = << "s1", "\n\n", "s2", "\n\n", "s1" >>

C10_NoSummaryOnError ==
  (spc = "returned" /\ summaryError) => ~summary_exists

====
